---- MODULE Spec2Model ----
(***************************************************************************)
(* Accounting core of cw20-ics20: the channel balance ledger               *)
(* (state.rs: CHANNEL_STATE and its three operations), the commission      *)
(* store (state.rs: COMMISSION) and the fee lock-in calculator and the     *)
(* Amount type (amount.rs).                                                *)
(*                                                                         *)
(* Uint128 and Decimal are the cosmwasm_std types.  Their width is scaled  *)
(* down so that the overflow cases are reachable: UINT128_MAX stands for   *)
(* 2^128 - 1 and DECIMAL_FRACTIONAL for 10^18.  As in cosmwasm_std, the    *)
(* largest Uint128 is not a whole number of Decimal units.                 *)
(* Strings are sequences of characters.                                    *)
(***************************************************************************)
EXTENDS Integers, Sequences, FiniteSets, TLC

VARIABLES ledger, commission, last, before, roundTrip, steps, input,
          pending, track

vars == <<ledger, commission, last, before, roundTrip, steps, input,
          pending, track>>

----------------------------------------------------------------------------
(* Bounds *)

\* number of decimal places of Decimal (18 in cosmwasm_std)
DecimalPlaces == 1

\* largest whole number n such that Decimal::from_ratio(n, 1) is representable
MaxWhole == 102

\* atomics of Uint128::MAX beyond MaxWhole whole units
MaxRem == 7

\* number of operations of one behaviour of Spec
MaxSteps == 3

\* longest denomination string given to Amount::from_parts
MaxLen == 6

\* largest u64 (2^64 - 1 in Rust), below the largest Uint128
U64_MAX == 63

\* number of operations of one behaviour of SpecPaired
MaxPairedSteps == 6

\* number of operations of one behaviour of SpecDelay
MaxDelaySteps == 5

----------------------------------------------------------------------------
(* cosmwasm_std::Uint128 and cosmwasm_std::Decimal *)

DECIMAL_FRACTIONAL == 10 ^ DecimalPlaces

UINT128_MAX == MaxWhole * DECIMAL_FRACTIONAL + MaxRem

\* Uint128 `+` / `+=`: checked_add(..).unwrap(), panics on overflow
Uint128_add(a, b) ==
    IF a + b > UINT128_MAX THEN [ok |-> FALSE, v |-> 0]
    ELSE [ok |-> TRUE, v |-> a + b]

\* Uint128::checked_sub: Err(OverflowError) when b > a
Uint128_checked_sub(a, b) ==
    IF b > a THEN [ok |-> FALSE, v |-> 0]
    ELSE [ok |-> TRUE, v |-> a - b]

\* Decimal::zero() and Decimal::one(), as atomics
Decimal_zero == 0

Decimal_one == DECIMAL_FRACTIONAL

\* Decimal::from_ratio(n, 1u32): n * DECIMAL_FRACTIONAL / 1, panics
\* ("Multiplication overflow") when the atomics do not fit a Uint128
Decimal_from_ratio(n) ==
    IF n * DECIMAL_FRACTIONAL > UINT128_MAX THEN [ok |-> FALSE, v |-> 0]
    ELSE [ok |-> TRUE, v |-> n * DECIMAL_FRACTIONAL]

\* Decimal::checked_mul: full 256-bit product of the atomics, divided by
\* DECIMAL_FRACTIONAL rounding down, Err(OverflowError) when it does not fit
Decimal_checked_mul(x, y) ==
    LET r == (x * y) \div DECIMAL_FRACTIONAL
    IN  IF r > UINT128_MAX THEN [ok |-> FALSE, v |-> 0]
        ELSE [ok |-> TRUE, v |-> r]

\* Decimal::floor
Decimal_floor(x) == (x \div DECIMAL_FRACTIONAL) * DECIMAL_FRACTIONAL

\* ceil that truncates instead
Decimal_ceil_rounds_down(x) ==
    [ok |-> TRUE, v |-> (x \div DECIMAL_FRACTIONAL) * DECIMAL_FRACTIONAL]

\* Decimal::ceil: floor when whole, else floor + one; panics on overflow
Decimal_ceil(x) ==
    LET floor == Decimal_floor(x)
    IN  IF floor = x THEN [ok |-> TRUE, v |-> floor]
        ELSE IF floor + Decimal_one > UINT128_MAX THEN [ok |-> FALSE, v |-> 0]
        ELSE [ok |-> TRUE, v |-> floor + Decimal_one]

\* Decimal * Uint128: rhs.multiply_ratio(atomics, DECIMAL_FRACTIONAL), rounding
\* down; panics when the result does not fit a Uint128
Decimal_mul_Uint128(x, u) ==
    LET r == (u * x) \div DECIMAL_FRACTIONAL
    IN  IF r > UINT128_MAX THEN [ok |-> FALSE, v |-> 0]
        ELSE [ok |-> TRUE, v |-> r]

----------------------------------------------------------------------------
(* state.rs: ChannelState, CHANNEL_STATE, COMMISSION *)

\* ChannelState::default(); `present` tells a stored entry from a missing one
NoEntry == [present |-> FALSE, outstanding |-> 0, total_sent |-> 0]

ChannelState(o, t) == [present |-> TRUE, outstanding |-> o, total_sent |-> t]

\* orig.unwrap_or_default()
unwrap_or_default(orig) ==
    IF orig.present THEN orig ELSE ChannelState(0, 0)

\* COMMISSION: Item<Decimal>, empty until the first save
NoCommission == [set |-> FALSE, atomics |-> 0]

SomeCommission(d) == [set |-> TRUE, atomics |-> d]

uusd == <<"u", "u", "s", "d">>

cw20_x == <<"c", "w", "2", "0", ":", "x">>

Channels == {"A", "B"}

Denoms == {uusd, cw20_x}

Keys == Channels \X Denoms

\* quantities given to the ledger operations
Quantities == {0, 1, 100, UINT128_MAX}

\* increase keyed by the channel alone: every entry of the channel grows
increase_ignores_denom(L, channel, denom, amount) ==
    LET grown(k) == LET state == unwrap_or_default(L[k])
                    IN  ChannelState(state.outstanding + amount,
                                     state.total_sent + amount)
        fits == \A k \in DOMAIN L :
                    k[1] = channel =>
                        /\ grown(k).outstanding <= UINT128_MAX
                        /\ grown(k).total_sent <= UINT128_MAX
    IN  IF ~fits THEN [res |-> "Panic", ledger |-> L]
        ELSE [res |-> "Ok",
              ledger |-> [k \in DOMAIN L |->
                             IF k[1] = channel THEN grown(k) ELSE L[k]]]

\* increase that forgets total_sent
increase_skips_total_sent(L, channel, denom, amount) ==
    LET state == unwrap_or_default(L[<<channel, denom>>])
        o == Uint128_add(state.outstanding, amount)
    IN  IF ~o.ok THEN [res |-> "Panic", ledger |-> L]
        ELSE [res |-> "Ok",
              ledger |-> [L EXCEPT ![<<channel, denom>>] =
                              ChannelState(o.v, state.total_sent)]]

increase_channel_balance(L, channel, denom, amount) ==
    LET state == unwrap_or_default(L[<<channel, denom>>])
        o == Uint128_add(state.outstanding, amount)
        t == Uint128_add(state.total_sent, amount)
    IN  IF ~o.ok \/ ~t.ok THEN [res |-> "Panic", ledger |-> L]
        ELSE [res |-> "Ok",
              ledger |-> [L EXCEPT ![<<channel, denom>>] = ChannelState(o.v, t.v)]]

\* reduce that takes a missing entry for an empty one
reduce_defaults_missing_entry(L, channel, denom, amount) ==
    LET orig == unwrap_or_default(L[<<channel, denom>>])
        o == Uint128_checked_sub(orig.outstanding, amount)
    IN  IF ~o.ok THEN [res |-> "InsufficientFunds", ledger |-> L]
        ELSE [res |-> "Ok",
              ledger |-> [L EXCEPT ![<<channel, denom>>] =
                              ChannelState(o.v, orig.total_sent)]]

\* reduce that also lowers total_sent
reduce_lowers_total_sent(L, channel, denom, amount) ==
    LET orig == L[<<channel, denom>>]
        o == Uint128_checked_sub(orig.outstanding, amount)
        t == Uint128_checked_sub(orig.total_sent, amount)
    IN  IF ~orig.present THEN [res |-> "InsufficientFunds", ledger |-> L]
        ELSE IF ~o.ok \/ ~t.ok THEN [res |-> "InsufficientFunds", ledger |-> L]
        ELSE [res |-> "Ok",
              ledger |-> [L EXCEPT ![<<channel, denom>>] = ChannelState(o.v, t.v)]]

\* reduce that deletes an entry it has emptied
reduce_removes_empty_entry(L, channel, denom, amount) ==
    LET orig == L[<<channel, denom>>]
        o == Uint128_checked_sub(orig.outstanding, amount)
    IN  IF ~orig.present THEN [res |-> "InsufficientFunds", ledger |-> L]
        ELSE IF ~o.ok THEN [res |-> "InsufficientFunds", ledger |-> L]
        ELSE IF o.v = 0
        THEN [res |-> "Ok", ledger |-> [L EXCEPT ![<<channel, denom>>] = NoEntry]]
        ELSE [res |-> "Ok",
              ledger |-> [L EXCEPT ![<<channel, denom>>] =
                              ChannelState(o.v, orig.total_sent)]]

\* reduce that saturates at zero instead of failing
reduce_saturates(L, channel, denom, amount) ==
    LET orig == L[<<channel, denom>>]
        o == Uint128_checked_sub(orig.outstanding, amount)
    IN  IF ~orig.present THEN [res |-> "InsufficientFunds", ledger |-> L]
        ELSE [res |-> "Ok",
              ledger |-> [L EXCEPT ![<<channel, denom>>] =
                              ChannelState(o.v, orig.total_sent)]]

reduce_channel_balance(L, channel, denom, amount) ==
    LET orig == L[<<channel, denom>>]
        o == Uint128_checked_sub(orig.outstanding, amount)
    IN  IF ~orig.present THEN [res |-> "InsufficientFunds", ledger |-> L]
        ELSE IF ~o.ok THEN [res |-> "InsufficientFunds", ledger |-> L]
        ELSE [res |-> "Ok",
              ledger |-> [L EXCEPT ![<<channel, denom>>] =
                              ChannelState(o.v, orig.total_sent)]]

\* undo_reduce that adds to total_sent too, as increase does
undo_reduce_adds_total_sent(L, channel, denom, amount) ==
    LET state == unwrap_or_default(L[<<channel, denom>>])
        o == Uint128_add(state.outstanding, amount)
        t == Uint128_add(state.total_sent, amount)
    IN  IF ~o.ok \/ ~t.ok THEN [res |-> "Panic", ledger |-> L]
        ELSE [res |-> "Ok",
              ledger |-> [L EXCEPT ![<<channel, denom>>] = ChannelState(o.v, t.v)]]

\* undo_reduce that adds the amount twice
undo_reduce_adds_twice(L, channel, denom, amount) ==
    LET state == unwrap_or_default(L[<<channel, denom>>])
        o == Uint128_add(state.outstanding, amount)
        o2 == Uint128_add(o.v, amount)
    IN  IF ~o.ok \/ ~o2.ok THEN [res |-> "Panic", ledger |-> L]
        ELSE [res |-> "Ok",
              ledger |-> [L EXCEPT ![<<channel, denom>>] =
                              ChannelState(o2.v, state.total_sent)]]

\* undo_reduce that stores the amount instead of adding it
undo_reduce_overwrites(L, channel, denom, amount) ==
    LET state == unwrap_or_default(L[<<channel, denom>>])
    IN  [res |-> "Ok",
         ledger |-> [L EXCEPT ![<<channel, denom>>] =
                         ChannelState(amount, state.total_sent)]]

undo_reduce_channel_balance(L, channel, denom, amount) ==
    LET state == unwrap_or_default(L[<<channel, denom>>])
        o == Uint128_add(state.outstanding, amount)
    IN  IF ~o.ok THEN [res |-> "Panic", ledger |-> L]
        ELSE [res |-> "Ok",
              ledger |-> [L EXCEPT ![<<channel, denom>>] =
                              ChannelState(o.v, state.total_sent)]]

\* set_commission without the upper limit
set_commission_no_upper_limit(C, d) ==
    IF d < Decimal_zero
    THEN [res |-> "InvalidCommission", commission |-> C]
    ELSE [res |-> "Ok", commission |-> SomeCommission(d)]

\* set_commission that saves the value before it validates it
set_commission_saves_first(C, d) ==
    IF d < Decimal_zero \/ d > Decimal_one
    THEN [res |-> "InvalidCommission", commission |-> SomeCommission(d)]
    ELSE [res |-> "Ok", commission |-> SomeCommission(d)]

\* Decimal is unsigned: commission.lt(&Decimal::zero()) never holds
set_commission(C, d) ==
    IF d < Decimal_zero \/ d > Decimal_one
    THEN [res |-> "InvalidCommission", commission |-> C]
    ELSE [res |-> "Ok", commission |-> SomeCommission(d)]

\* COMMISSION.load: Err(StdError::NotFound) when nothing was saved
get_commission(C) ==
    IF C.set THEN [res |-> "Ok", v |-> C.atomics]
    ELSE [res |-> "NotFound", v |-> 0]

----------------------------------------------------------------------------
(* amount.rs: Amount *)

Native(d, n) == [kind |-> "Native", id |-> d, amount |-> n]

Cw20(a, n) == [kind |-> "Cw20", id |-> a, amount |-> n]

Cw20Prefix == <<"c", "w", "2", "0", ":">>

\* str::starts_with
starts_with(s, p) ==
    /\ Len(s) >= Len(p)
    /\ SubSeq(s, 1, Len(p)) = p

\* from_parts that cuts the prefix one character short
from_parts_keeps_colon(d, n) ==
    IF starts_with(d, Cw20Prefix)
    THEN Cw20(SubSeq(d, 5, Len(d)), n)
    ELSE Native(d, n)

from_parts(d, n) ==
    IF starts_with(d, Cw20Prefix)
    THEN Cw20(SubSeq(d, 6, Len(d)), n)
    ELSE Native(d, n)

denom(a) ==
    IF a.kind = "Native" THEN a.id ELSE Cw20Prefix \o a.id

amount(a) == a.amount

is_empty(a) == a.amount = 0

\* u64_amount that casts with `as u64`, keeping the low bits
u64_amount_truncates(a) ==
    [res |-> "Ok", v |-> amount(a) % (U64_MAX + 1)]

\* u128 to u64 by try_into: Err(TryFromIntError) above u64::MAX
u64_amount(a) ==
    IF amount(a) > U64_MAX THEN [res |-> "TryFromIntError", v |-> 0]
    ELSE [res |-> "Ok", v |-> amount(a)]

NoMsg == [type |-> "None"]

\* into_cosmos_msg that does not look for a zero amount
into_cosmos_msg_sends_zero(a, addr) ==
    IF a.kind = "Native"
    THEN [res |-> "Ok",
          msg |-> [type |-> "Bank.Send", to_address |-> addr,
                   amount |-> <<[denom |-> a.id, amount |-> a.amount]>>]]
    ELSE [res |-> "Ok",
          msg |-> [type |-> "Wasm.Execute", contract_addr |-> a.id,
                   msg |-> [transfer |-> [recipient |-> addr,
                                          amount |-> a.amount]],
                   funds |-> <<>>]]

\* Ok(None) is msg = NoMsg; to_binary of the Transfer message is the message
into_cosmos_msg(a, addr) ==
    IF amount(a) = 0 THEN [res |-> "Ok", msg |-> NoMsg]
    ELSE IF a.kind = "Native"
    THEN [res |-> "Ok",
          msg |-> [type |-> "Bank.Send", to_address |-> addr,
                   amount |-> <<[denom |-> a.id, amount |-> a.amount]>>]]
    ELSE [res |-> "Ok",
          msg |-> [type |-> "Wasm.Execute", contract_addr |-> a.id,
                   msg |-> [transfer |-> [recipient |-> addr,
                                          amount |-> a.amount]],
                   funds |-> <<>>]]

NoAmount == Native(<<>>, 0)

\* calculate_lock_in that subtracts the fee before it is rounded up
calculate_lock_in_unrounded_transfer(C, a) ==
    LET comm == get_commission(C)
        amnt_decimal == Decimal_from_ratio(amount(a))
        mul == Decimal_checked_mul(comm.v, amnt_decimal.v)
        lock_in == Decimal_ceil(mul.v)
        lock_in_uint == Decimal_mul_Uint128(lock_in.v, 1)
        unrounded == Decimal_mul_Uint128(mul.v, 1)
        transfer_amnt_uint == Uint128_checked_sub(amount(a), unrounded.v)
        fail(e) == [res |-> e, lock_in |-> NoAmount, transfer |-> NoAmount]
    IN  IF is_empty(a) THEN fail("NoFunds")
        ELSE IF comm.res # "Ok" THEN fail("NotFound")
        ELSE IF ~amnt_decimal.ok THEN fail("Panic")
        ELSE IF ~mul.ok THEN fail("GenericErr")
        ELSE IF ~lock_in.ok THEN fail("Panic")
        ELSE IF ~lock_in_uint.ok THEN fail("Panic")
        ELSE IF ~transfer_amnt_uint.ok THEN fail("GenericErr")
        ELSE [res |-> "Ok",
              lock_in |-> [a EXCEPT !.amount = lock_in_uint.v],
              transfer |-> [a EXCEPT !.amount = transfer_amnt_uint.v]]

\* calculate_lock_in that loads the commission before it looks at the amount
calculate_lock_in_loads_first(C, a) ==
    LET comm == get_commission(C)
        amnt_decimal == Decimal_from_ratio(amount(a))
        mul == Decimal_checked_mul(comm.v, amnt_decimal.v)
        lock_in == Decimal_ceil(mul.v)
        lock_in_uint == Decimal_mul_Uint128(lock_in.v, 1)
        transfer_amnt_uint == Uint128_checked_sub(amount(a), lock_in_uint.v)
        fail(e) == [res |-> e, lock_in |-> NoAmount, transfer |-> NoAmount]
    IN  IF comm.res # "Ok" THEN fail("NotFound")
        ELSE IF is_empty(a) THEN fail("NoFunds")
        ELSE IF ~amnt_decimal.ok THEN fail("Panic")
        ELSE IF ~mul.ok THEN fail("GenericErr")
        ELSE IF ~lock_in.ok THEN fail("Panic")
        ELSE IF ~lock_in_uint.ok THEN fail("Panic")
        ELSE IF ~transfer_amnt_uint.ok THEN fail("GenericErr")
        ELSE [res |-> "Ok",
              lock_in |-> [a EXCEPT !.amount = lock_in_uint.v],
              transfer |-> [a EXCEPT !.amount = transfer_amnt_uint.v]]

calculate_lock_in(C, a) ==
    LET comm == get_commission(C)
        amnt_decimal == Decimal_from_ratio(amount(a))
        mul == Decimal_checked_mul(comm.v, amnt_decimal.v)
        lock_in == Decimal_ceil(mul.v)
        lock_in_uint == Decimal_mul_Uint128(lock_in.v, 1)
        transfer_amnt_uint == Uint128_checked_sub(amount(a), lock_in_uint.v)
        fail(e) == [res |-> e, lock_in |-> NoAmount, transfer |-> NoAmount]
    IN  IF is_empty(a) THEN fail("NoFunds")
        ELSE IF comm.res # "Ok" THEN fail("NotFound")
        ELSE IF ~amnt_decimal.ok THEN fail("Panic")
        ELSE IF ~mul.ok THEN fail("GenericErr")
        ELSE IF ~lock_in.ok THEN fail("Panic")
        ELSE IF ~lock_in_uint.ok THEN fail("Panic")
        ELSE IF ~transfer_amnt_uint.ok THEN fail("GenericErr")
        ELSE [res |-> "Ok",
              lock_in |-> [a EXCEPT !.amount = lock_in_uint.v],
              transfer |-> [a EXCEPT !.amount = transfer_amnt_uint.v]]

----------------------------------------------------------------------------
(* The state machine *)

EmptyLedger == [k \in Keys |-> NoEntry]

NoRoundTrip == [valid |-> FALSE, start |-> EmptyLedger]

\* pending counts, per key and quantity, the successful reduce calls that no
\* undo_reduce has reversed yet (the replies the transport still owes)
NoPending == [p \in Keys \X Quantities |-> 0]

\* track follows one successful reduce until its undo_reduce: start is the
\* ledger before the reduce, shadow is start with the calls made since, and
\* replayed tells whether each of them succeeded on shadow as well
NoTrack ==
    [active |-> FALSE, done |-> FALSE, channel |-> "A", denom |-> uusd,
     amount |-> 0, start |-> EmptyLedger, shadow |-> EmptyLedger,
     replayed |-> TRUE]

\* empty storage, no operation called yet
Fresh ==
    /\ ledger = EmptyLedger
    /\ commission = NoCommission
    /\ last = [op |-> "none", res |-> "Ok"]
    /\ before = [ledger |-> EmptyLedger, commission |-> NoCommission]
    /\ roundTrip = NoRoundTrip
    /\ steps = 0
    /\ pending = NoPending
    /\ track = NoTrack

Init ==
    /\ Fresh
    /\ input = [for |-> "none"]

\* before keeps the storage as it was when the operation was called
Snapshot ==
    /\ before' = [ledger |-> ledger, commission |-> commission]
    /\ UNCHANGED input

IncreaseChannelBalance(channel, d, q) ==
    LET r == increase_channel_balance(ledger, channel, d, q)
    IN  /\ ledger' = r.ledger
        /\ last' = [op |-> "increase", channel |-> channel, denom |-> d,
                    amount |-> q, res |-> r.res]
        /\ Snapshot
        /\ roundTrip' = NoRoundTrip
        /\ UNCHANGED commission

ReduceChannelBalance(channel, d, q) ==
    LET r == reduce_channel_balance(ledger, channel, d, q)
    IN  /\ ledger' = r.ledger
        /\ last' = [op |-> "reduce", channel |-> channel, denom |-> d,
                    amount |-> q, res |-> r.res]
        /\ Snapshot
        /\ roundTrip' = NoRoundTrip
        /\ UNCHANGED commission

\* roundTrip remembers the ledger before a successful reduce when this
\* undo_reduce follows it immediately with the same arguments
UndoReduceChannelBalance(channel, d, q) ==
    LET r == undo_reduce_channel_balance(ledger, channel, d, q)
    IN  /\ ledger' = r.ledger
        /\ last' = [op |-> "undo_reduce", channel |-> channel, denom |-> d,
                    amount |-> q, res |-> r.res]
        /\ Snapshot
        /\ roundTrip' =
              IF /\ last.op = "reduce"
                 /\ last.res = "Ok"
                 /\ last.channel = channel
                 /\ last.denom = d
                 /\ last.amount = q
              THEN [valid |-> TRUE, start |-> before.ledger]
              ELSE NoRoundTrip
        /\ UNCHANGED commission

SetCommission(d) ==
    LET r == set_commission(commission, d)
    IN  /\ commission' = r.commission
        /\ last' = [op |-> "set_commission", commission |-> d, res |-> r.res]
        /\ Snapshot
        /\ roundTrip' = NoRoundTrip
        /\ UNCHANGED ledger

CalculateLockIn(a) ==
    LET r == calculate_lock_in(commission, a)
    IN  /\ last' = [op |-> "calculate_lock_in", amount |-> a, res |-> r.res,
                    lock_in |-> r.lock_in, transfer |-> r.transfer]
        /\ Snapshot
        /\ roundTrip' = NoRoundTrip
        /\ UNCHANGED <<ledger, commission>>

FromParts(d, n) ==
    LET a == from_parts(d, n)
    IN  /\ last' = [op |-> "from_parts", denom |-> d, amount |-> n, res |-> "Ok",
                    out |-> a, out_denom |-> denom(a), out_amount |-> amount(a)]
        /\ Snapshot
        /\ roundTrip' = NoRoundTrip
        /\ UNCHANGED <<ledger, commission>>

\* a.denom() and a.amount(), given back to Amount::from_parts
DenomThenFromParts(a) ==
    /\ last' = [op |-> "denom_from_parts", amount |-> a, res |-> "Ok",
                out_denom |-> denom(a),
                out |-> from_parts(denom(a), amount(a))]
    /\ Snapshot
    /\ roundTrip' = NoRoundTrip
    /\ UNCHANGED <<ledger, commission>>

U64Amount(a) ==
    LET r == u64_amount(a)
    IN  /\ last' = [op |-> "u64_amount", amount |-> a, res |-> r.res,
                    out |-> r.v]
        /\ Snapshot
        /\ roundTrip' = NoRoundTrip
        /\ UNCHANGED <<ledger, commission>>

IntoCosmosMsg(a, addr) ==
    LET r == into_cosmos_msg(a, addr)
    IN  /\ last' = [op |-> "into_cosmos_msg", amount |-> a, addr |-> addr,
                    res |-> r.res, msg |-> r.msg]
        /\ Snapshot
        /\ roundTrip' = NoRoundTrip
        /\ UNCHANGED <<ledger, commission>>

----------------------------------------------------------------------------
(* Spec: every operation, on small input sets, MaxSteps operations long *)

Tick ==
    /\ steps < MaxSteps
    /\ steps' = steps + 1
    /\ UNCHANGED <<pending, track>>

\* commissions given to set_commission: 0, 10%, 100% and two invalid ones
Commissions == {Decimal_zero, Decimal_one \div 10, Decimal_one,
                Decimal_one + 1, UINT128_MAX}

LockInAmounts == {Native(uusd, 0), Native(uusd, 100), Cw20(<<"x">>, 101)}

Increase ==
    \E channel \in Channels, d \in Denoms, q \in Quantities :
        Tick /\ IncreaseChannelBalance(channel, d, q)

Reduce ==
    \E channel \in Channels, d \in Denoms, q \in Quantities :
        Tick /\ ReduceChannelBalance(channel, d, q)

UndoReduce ==
    \E channel \in Channels, d \in Denoms, q \in Quantities :
        Tick /\ UndoReduceChannelBalance(channel, d, q)

Configure ==
    \E d \in Commissions : Tick /\ SetCommission(d)

LockIn ==
    \E a \in LockInAmounts : Tick /\ CalculateLockIn(a)

Decode ==
    \E d \in Denoms, n \in Quantities : Tick /\ FromParts(d, n)

Next ==
    \/ Increase
    \/ Reduce
    \/ UndoReduce
    \/ Configure
    \/ LockIn
    \/ Decode

Spec == Init /\ [][Next]_vars

----------------------------------------------------------------------------
(* SpecFee: the commission store, calculate_lock_in and the conversions of  *)
(* an Amount on every commission and quantity of the range; the inputs are *)
(* drawn by the initial state                                              *)

FeeCommissions == (0 .. Decimal_one + 1) \cup {2 * Decimal_one, UINT128_MAX}

FeeQuantities == (0 .. MaxWhole + 2) \cup {UINT128_MAX}

FeeAmounts ==
    {Native(uusd, q) : q \in FeeQuantities} \cup
    {Cw20(<<"x">>, q) : q \in FeeQuantities}

InitFee ==
    /\ Fresh
    /\ \E d \in FeeCommissions, a \in FeeAmounts :
          input = [for |-> "fee", commission |-> d, amount |-> a]

FeeConfigure ==
    /\ ~commission.set
    /\ last.op # "set_commission"
    /\ SetCommission(input.commission)
    /\ UNCHANGED <<steps, pending, track>>

FeeLockIn ==
    /\ last.op # "calculate_lock_in"
    /\ CalculateLockIn(input.amount)
    /\ UNCHANGED <<steps, pending, track>>

FeeU64Amount ==
    /\ last.op # "u64_amount"
    /\ U64Amount(input.amount)
    /\ UNCHANGED <<steps, pending, track>>

\* the second recipient is also the address of the Cw20 token of FeeAmounts
Recipients == {<<"r">>, <<"x">>}

FeeIntoCosmosMsg ==
    /\ last.op # "into_cosmos_msg"
    /\ \E addr \in Recipients : IntoCosmosMsg(input.amount, addr)
    /\ UNCHANGED <<steps, pending, track>>

NextFee ==
    \/ FeeConfigure
    \/ FeeLockIn
    \/ FeeU64Amount
    \/ FeeIntoCosmosMsg

SpecFee == InitFee /\ [][NextFee]_vars

----------------------------------------------------------------------------
(* SpecAmount: Amount::from_parts on every string of at most MaxLen         *)
(* characters                                                              *)

Alphabet == {"c", "w", "2", "0", ":", "u"}

Strings == UNION {[1 .. n -> Alphabet] : n \in 0 .. MaxLen}

PartQuantities == {0, 100}

InitAmount ==
    /\ Fresh
    /\ \E d \in Strings, n \in PartQuantities :
          input = [for |-> "amount", denom |-> d, amount |-> n]

DecodeInput ==
    /\ last.op = "none"
    /\ FromParts(input.denom, input.amount)
    /\ UNCHANGED <<steps, pending, track>>

\* Amount::native(n, d) and Amount::cw20(n, d) of the input, encoded and decoded
EncodeNativeInput ==
    /\ last.op = "none"
    /\ DenomThenFromParts(Native(input.denom, input.amount))
    /\ UNCHANGED <<steps, pending, track>>

EncodeCw20Input ==
    /\ last.op = "none"
    /\ DenomThenFromParts(Cw20(input.denom, input.amount))
    /\ UNCHANGED <<steps, pending, track>>

NextAmount ==
    \/ DecodeInput
    \/ EncodeNativeInput
    \/ EncodeCw20Input

SpecAmount == InitAmount /\ [][NextAmount]_vars

----------------------------------------------------------------------------
(* SpecPaired: the ledger as the transfer handlers drive it: undo_reduce is *)
(* called only with the arguments of an earlier successful reduce that has  *)
(* not been undone, once for each                                           *)

PairedDenoms == {uusd}

PairedQuantities == {1, 100, UINT128_MAX}

PairedTick ==
    /\ steps < MaxPairedSteps
    /\ steps' = steps + 1
    /\ UNCHANGED track

PairedIncrease ==
    \E channel \in Channels, d \in PairedDenoms, q \in PairedQuantities :
        /\ PairedTick
        /\ IncreaseChannelBalance(channel, d, q)
        /\ UNCHANGED pending

PairedReduce ==
    \E channel \in Channels, d \in PairedDenoms, q \in PairedQuantities :
        /\ PairedTick
        /\ ReduceChannelBalance(channel, d, q)
        /\ pending' = IF last'.res = "Ok"
                      THEN [pending EXCEPT ![<<<<channel, d>>, q>>] = @ + 1]
                      ELSE pending

PairedUndoReduce ==
    \E channel \in Channels, d \in PairedDenoms, q \in PairedQuantities :
        /\ pending[<<<<channel, d>>, q>>] > 0
        /\ PairedTick
        /\ UndoReduceChannelBalance(channel, d, q)
        /\ pending' = IF last'.res = "Ok"
                      THEN [pending EXCEPT ![<<<<channel, d>>, q>>] = @ - 1]
                      ELSE pending

NextPaired ==
    \/ PairedIncrease
    \/ PairedReduce
    \/ PairedUndoReduce

SpecPaired == Init /\ [][NextPaired]_vars

----------------------------------------------------------------------------
(* SpecDelay: one successful reduce is followed until its undo_reduce, any  *)
(* other ledger calls coming before and in between; the behaviour ends with *)
(* that undo_reduce                                                         *)

DelayDenoms == {uusd}

DelayQuantities == {1, UINT128_MAX}

DelayTick ==
    /\ ~track.done
    /\ steps < MaxDelaySteps
    /\ steps' = steps + 1
    /\ UNCHANGED pending

\* a call that succeeded while a reduce is followed is made on shadow too; r is
\* its result there
Intervene(r) ==
    track' = IF track.active /\ last'.res = "Ok"
             THEN [track EXCEPT !.shadow = r.ledger,
                                !.replayed = @ /\ r.res = "Ok"]
             ELSE track

DelayIncrease ==
    \E channel \in Channels, d \in DelayDenoms, q \in DelayQuantities :
        /\ DelayTick
        /\ IncreaseChannelBalance(channel, d, q)
        /\ Intervene(increase_channel_balance(track.shadow, channel, d, q))

DelayReduce ==
    \E channel \in Channels, d \in DelayDenoms, q \in DelayQuantities :
        /\ DelayTick
        /\ ReduceChannelBalance(channel, d, q)
        /\ Intervene(reduce_channel_balance(track.shadow, channel, d, q))

DelayUndoReduce ==
    \E channel \in Channels, d \in DelayDenoms, q \in DelayQuantities :
        /\ DelayTick
        /\ UndoReduceChannelBalance(channel, d, q)
        /\ Intervene(undo_reduce_channel_balance(track.shadow, channel, d, q))

\* the reduce that is followed
DelayReduceFollowed ==
    \E channel \in Channels, d \in DelayDenoms, q \in DelayQuantities :
        /\ ~track.active
        /\ DelayTick
        /\ ReduceChannelBalance(channel, d, q)
        /\ last'.res = "Ok"
        /\ track' = [active |-> TRUE, done |-> FALSE, channel |-> channel,
                     denom |-> d, amount |-> q, start |-> ledger,
                     shadow |-> ledger, replayed |-> TRUE]

\* its undo_reduce, when it succeeds
DelayUndoFollowed ==
    /\ track.active
    /\ DelayTick
    /\ UndoReduceChannelBalance(track.channel, track.denom, track.amount)
    /\ last'.res = "Ok"
    /\ track' = [track EXCEPT !.active = FALSE, !.done = TRUE]

NextDelay ==
    \/ DelayIncrease
    \/ DelayReduce
    \/ DelayUndoReduce
    \/ DelayReduceFollowed
    \/ DelayUndoFollowed

SpecDelay == Init /\ [][NextDelay]_vars

----------------------------------------------------------------------------
(* Properties *)

\* the key of the last ledger operation, its entry before and after
LastKey == <<last.channel, last.denom>>

EntryBefore == before.ledger[LastKey]

EntryAfter == ledger[LastKey]

\* C1: a successful reduce_channel_balance(channel, denom, q) followed
\* immediately by undo_reduce_channel_balance(channel, denom, q) succeeds and
\* leaves the ledger as it was before the reduce: the same outstanding and
\* total_sent for every key.
C1_ReduceUndoRoundTrip ==
    roundTrip.valid =>
        /\ last.res = "Ok"
        /\ \A k \in Keys :
              /\ ledger[k].present = roundTrip.start[k].present
              /\ ledger[k].outstanding = roundTrip.start[k].outstanding
              /\ ledger[k].total_sent = roundTrip.start[k].total_sent

\* a round trip of a positive quantity, so both calls changed the entry
C1_Witness ==
    /\ roundTrip.valid
    /\ last.op = "undo_reduce"
    /\ last.amount > 0
    /\ EntryBefore.outstanding < EntryAfter.outstanding

\* C2: reduce_channel_balance fails with InsufficientFunds when the entry is
\* missing or its outstanding is less than q, and then the ledger is as it
\* was (no entry is created); otherwise it succeeds and outstanding becomes
\* outstanding - q.
C2_ReduceInsufficientFunds ==
    last.op = "reduce" =>
        IF ~EntryBefore.present \/ EntryBefore.outstanding < last.amount
        THEN /\ last.res = "InsufficientFunds"
             /\ ledger = before.ledger
        ELSE /\ last.res = "Ok"
             /\ EntryAfter.present
             /\ EntryAfter.outstanding = EntryBefore.outstanding - last.amount

\* reduce of a missing entry, refused even though the quantity is zero
C2_Witness ==
    /\ last.op = "reduce"
    /\ last.res = "InsufficientFunds"
    /\ ~EntryBefore.present
    /\ last.amount = 0
    /\ \E k \in Keys : ledger[k].present

\* C3: whenever calculate_lock_in returns (withheld, forwarded), their
\* quantities add up to the quantity of the amount and both have the variant
\* and the denom/address of the amount.
C3_FeeConservation ==
    (last.op = "calculate_lock_in" /\ last.res = "Ok") =>
        /\ last.lock_in.amount + last.transfer.amount = last.amount.amount
        /\ last.lock_in.kind = last.amount.kind
        /\ last.transfer.kind = last.amount.kind
        /\ last.lock_in.id = last.amount.id
        /\ last.transfer.id = last.amount.id

\* a Cw20 amount split with a fee that had to be rounded
C3_Witness ==
    /\ last.op = "calculate_lock_in"
    /\ last.res = "Ok"
    /\ last.amount.kind = "Cw20"
    /\ (commission.atomics * last.amount.amount) % DECIMAL_FRACTIONAL # 0
    /\ last.lock_in.amount > 0
    /\ last.transfer.amount > 0

\* C4: the withheld quantity returned by calculate_lock_in is the least
\* integer w with w >= c * q: at least 1 when c > 0, 0 when c = 0, q (and
\* nothing forwarded) when c = 1; c = 10% splits 100 into (10, 90) and 101
\* into (11, 90).
C4_CeilingRounding ==
    (last.op = "calculate_lock_in" /\ last.res = "Ok") =>
        LET c == commission.atomics
            q == last.amount.amount
            w == last.lock_in.amount
            f == last.transfer.amount
        IN  /\ w * DECIMAL_FRACTIONAL >= c * q
            /\ (w - 1) * DECIMAL_FRACTIONAL < c * q
            /\ c > 0 => w >= 1
            /\ c = 0 => w = 0
            /\ c = DECIMAL_FRACTIONAL => (w = q /\ f = 0)
            /\ (c * 10 = DECIMAL_FRACTIONAL /\ q = 100) => (w = 10 /\ f = 90)
            /\ (c * 10 = DECIMAL_FRACTIONAL /\ q = 101) => (w = 11 /\ f = 90)

\* 10% of 101
C4_Witness ==
    /\ last.op = "calculate_lock_in"
    /\ last.res = "Ok"
    /\ commission.set
    /\ commission.atomics * 10 = DECIMAL_FRACTIONAL
    /\ last.amount.amount = 101

\* C5: calculate_lock_in on a zero amount fails with NoFunds whatever the
\* commission store holds, also when no commission was ever set.
C5_ZeroAmountNoFunds ==
    (last.op = "calculate_lock_in" /\ last.amount.amount = 0) =>
        last.res = "NoFunds"

\* a zero amount while the commission store is empty
C5_Witness ==
    /\ last.op = "calculate_lock_in"
    /\ last.amount.amount = 0
    /\ ~commission.set

\* C6: set_commission(v) succeeds exactly when 0 <= v <= 1 and otherwise
\* fails with InvalidCommission and leaves the stored commission as it was;
\* the stored commission is always unset or in [0, 1].
C6_CommissionInRange ==
    /\ last.op = "set_commission" =>
          IF 0 <= last.commission /\ last.commission <= DECIMAL_FRACTIONAL
          THEN last.res = "Ok"
          ELSE /\ last.res = "InvalidCommission"
               /\ commission = before.commission
    /\ commission.set =>
          (0 <= commission.atomics /\ commission.atomics <= DECIMAL_FRACTIONAL)

\* the smallest value above 1 is refused and the 100% set before stays
C6_Witness ==
    /\ last.op = "set_commission"
    /\ last.commission = DECIMAL_FRACTIONAL + 1
    /\ before.commission.set
    /\ before.commission.atomics = DECIMAL_FRACTIONAL
    /\ commission.set

\* C7: in every step the total_sent of every key does not decrease, and it
\* changes only for the key of a successful increase_channel_balance.
C7_TotalSentMonotone ==
    [][\A k \in Keys :
          /\ ledger'[k].total_sent >= ledger[k].total_sent
          /\ ledger'[k].total_sent # ledger[k].total_sent =>
                /\ last'.op = "increase"
                /\ last'.res = "Ok"
                /\ k = <<last'.channel, last'.denom>>]_vars

\* a reduce that lowered outstanding of an entry with a positive total_sent
C7_Witness ==
    /\ last.op = "reduce"
    /\ last.res = "Ok"
    /\ last.amount > 0
    /\ EntryAfter.total_sent > 0
    /\ EntryAfter.total_sent = EntryBefore.total_sent
    /\ EntryAfter.outstanding < EntryBefore.outstanding

ScenarioKey == <<"A", uusd>>

ScenarioLedger == [EmptyLedger EXCEPT ![ScenarioKey] = ChannelState(100, 100)]

LastIsScenarioCall ==
    /\ last.channel = "A"
    /\ last.denom = uusd
    /\ last.amount = 100

\* C8: a successful increase_channel_balance(channel, denom, q) adds q to
\* outstanding and to total_sent of the entry, a missing entry counting as
\* (0, 0), and it succeeds whenever both sums fit; increase(A, uusd, 100) on
\* the empty ledger, then reduce(A, uusd, 100) gives (0, 100) and then
\* undo_reduce(A, uusd, 100) gives (100, 100).
C8_IncreaseAddsToBoth ==
    /\ last.op = "increase" =>
          LET o == (IF EntryBefore.present THEN EntryBefore.outstanding ELSE 0)
                       + last.amount
              t == (IF EntryBefore.present THEN EntryBefore.total_sent ELSE 0)
                       + last.amount
          IN  /\ (o <= UINT128_MAX /\ t <= UINT128_MAX) => last.res = "Ok"
              /\ last.res = "Ok" =>
                    /\ EntryAfter.present
                    /\ EntryAfter.outstanding = o
                    /\ EntryAfter.total_sent = t
    /\ (last.op = "increase" /\ LastIsScenarioCall
            /\ before.ledger = EmptyLedger) =>
          ledger = ScenarioLedger
    /\ (last.op = "reduce" /\ LastIsScenarioCall
            /\ before.ledger = ScenarioLedger) =>
          /\ EntryAfter.outstanding = 0
          /\ EntryAfter.total_sent = 100
    /\ (roundTrip.valid /\ LastIsScenarioCall
            /\ roundTrip.start = ScenarioLedger) =>
          /\ EntryAfter.outstanding = 100
          /\ EntryAfter.total_sent = 100

\* the end of the scenario: increase, reduce, undo_reduce of 100 on (A, uusd)
C8_Witness ==
    /\ roundTrip.valid
    /\ roundTrip.start = ScenarioLedger
    /\ last.op = "undo_reduce"
    /\ LastIsScenarioCall
    /\ steps = 3

\* C9: when outstanding + q or total_sent + q exceeds the Uint128 range,
\* increase_channel_balance (and undo_reduce_channel_balance for
\* outstanding + q) returns an error to its caller instead of aborting, and
\* the entry is left as it was.
C9_OverflowIsTypedFailure ==
    (last.op \in {"increase", "undo_reduce"}) =>
        LET o == EntryBefore.outstanding + last.amount
            t == EntryBefore.total_sent + last.amount
            overflows == \/ last.op = "increase"
                            /\ (o > UINT128_MAX \/ t > UINT128_MAX)
                         \/ last.op = "undo_reduce" /\ o > UINT128_MAX
        IN  overflows =>
                /\ last.res \notin {"Ok", "Panic"}
                /\ ledger = before.ledger

\* s without its first i characters
DropFirst(s, i) == [j \in 1 .. Len(s) - i |-> s[j + i]]

HasCw20Prefix(s) ==
    /\ Len(s) >= 5
    /\ s[1] = "c" /\ s[2] = "w" /\ s[3] = "2" /\ s[4] = "0" /\ s[5] = ":"

\* C10: Amount::from_parts(d, n) is a Cw20 amount with address d less its
\* first 5 characters when d starts with "cw20:" and a Native amount with
\* denom d otherwise; in both cases its denom() is d and its amount() is n.
C10_DecodeEncodeIdentity ==
    last.op = "from_parts" =>
        /\ IF HasCw20Prefix(last.denom)
           THEN /\ last.out.kind = "Cw20"
                /\ last.out.id = DropFirst(last.denom, 5)
           ELSE /\ last.out.kind = "Native"
                /\ last.out.id = last.denom
        /\ last.out_denom = last.denom
        /\ last.out_amount = last.amount

\* a prefixed denomination with a non-empty address
C10_Witness ==
    /\ last.op = "from_parts"
    /\ HasCw20Prefix(last.denom)
    /\ Len(last.denom) > 5
    /\ last.out.kind = "Cw20"

\* C11: for every Amount a, Amount::from_parts(a.denom(), a.amount()) is a
\* again: the same variant, the same denom or address, the same quantity.
C11_EncodeDecodeIdentity ==
    last.op = "denom_from_parts" =>
        /\ last.out.kind = last.amount.kind
        /\ last.out.id = last.amount.id
        /\ last.out.amount = last.amount.amount

\* the call of this step succeeded, was one of ops and was made on key k
StepOn(ops, k) ==
    /\ last'.op \in ops
    /\ last'.res = "Ok"
    /\ k = <<last'.channel, last'.denom>>

\* C12 as stated: an entry appears only in a successful
\* increase_channel_balance on its key, and an entry is never removed.
C12_CreatedOnlyByIncrease ==
    [][\A k \in Keys :
          /\ ledger[k].present => ledger'[k].present
          /\ (~ledger[k].present /\ ledger'[k].present) =>
                StepOn({"increase"}, k)]_vars

\* C12, amended: an entry appears only in a successful
\* increase_channel_balance or undo_reduce_channel_balance on its key, and an
\* entry is never removed.
C12_CreatedByIncreaseOrUndo ==
    [][\A k \in Keys :
          /\ ledger[k].present => ledger'[k].present
          /\ (~ledger[k].present /\ ledger'[k].present) =>
                StepOn({"increase", "undo_reduce"}, k)]_vars

\* undo_reduce on a key that had no entry has stored one
C12_Witness ==
    /\ last.op = "undo_reduce"
    /\ last.res = "Ok"
    /\ ~EntryBefore.present
    /\ EntryAfter.present
    /\ EntryAfter.total_sent = 0

\* C13: for every quantity q with 1 <= q <= Uint128::MAX and every configured
\* commission, calculate_lock_in returns a (withheld, forwarded) pair: it
\* neither aborts nor returns an arithmetic error.
C13_LockInTotal ==
    (/\ last.op = "calculate_lock_in"
     /\ commission.set
     /\ 1 <= last.amount.amount
     /\ last.amount.amount <= UINT128_MAX) =>
        last.res = "Ok"

\* C14: get_commission fails until a set_commission has succeeded, and
\* calculate_lock_in on a non-zero amount fails with it; after a successful
\* set_commission(v) get_commission returns v, and every other call, a
\* rejected set_commission included, leaves what get_commission returns as it
\* was.
C14_CommissionReadAfterWrite ==
    /\ get_commission(commission).res # "Ok"
    /\ [][/\ IF last'.op = "set_commission" /\ last'.res = "Ok"
             THEN get_commission(commission') =
                      [res |-> "Ok", v |-> last'.commission]
             ELSE get_commission(commission') = get_commission(commission)
          /\ (/\ last'.op = "calculate_lock_in"
              /\ last'.amount.amount # 0
              /\ get_commission(commission).res # "Ok") =>
                last'.res = "NotFound"]_vars

\* a second successful set_commission has replaced the value of the first
C14_Witness ==
    /\ last.op = "set_commission"
    /\ last.res = "Ok"
    /\ before.commission.set
    /\ before.commission.atomics # last.commission
    /\ get_commission(commission).v = last.commission

\* C15: Amount::u64_amount returns the quantity unchanged when it is at most
\* u64::MAX and fails when it is larger; it never truncates or wraps.
C15_U64AmountChecked ==
    last.op = "u64_amount" =>
        IF last.amount.amount <= U64_MAX
        THEN last.res = "Ok" /\ last.out = last.amount.amount
        ELSE last.res # "Ok"

\* the smallest quantity that does not fit
C15_Witness ==
    /\ last.op = "u64_amount"
    /\ last.amount.amount = U64_MAX + 1
    /\ last.res = "TryFromIntError"

\* C16: into_cosmos_msg(recipient) returns Ok(None) exactly when the quantity
\* is zero; for a non-zero Native amount a bank Send to the recipient with one
\* coin of the amount's denom and quantity; for a non-zero Cw20 amount a Wasm
\* Execute on the token's address with a Transfer of the quantity to the
\* recipient and no funds.
C16_IntoCosmosMsg ==
    last.op = "into_cosmos_msg" =>
        LET a == last.amount
            m == last.msg
        IN  /\ last.res = "Ok"
            /\ m.type = "None" <=> a.amount = 0
            /\ (a.amount # 0 /\ a.kind = "Native") =>
                  /\ m.type = "Bank.Send"
                  /\ m.to_address = last.addr
                  /\ Len(m.amount) = 1
                  /\ m.amount[1].denom = a.id
                  /\ m.amount[1].amount = a.amount
            /\ (a.amount # 0 /\ a.kind = "Cw20") =>
                  /\ m.type = "Wasm.Execute"
                  /\ m.contract_addr = a.id
                  /\ m.msg.transfer.recipient = last.addr
                  /\ m.msg.transfer.amount = a.amount
                  /\ Len(m.funds) = 0

\* a Cw20 transfer to a recipient that is not the token
C16_Witness ==
    /\ last.op = "into_cosmos_msg"
    /\ last.amount.kind = "Cw20"
    /\ last.amount.amount > 0
    /\ last.addr # last.amount.id
    /\ last.msg.type = "Wasm.Execute"

\* C18: an undo_reduce that reverses an earlier successful reduce, not yet
\* undone, succeeds, whatever increases and reduces came in between.
C18_UndoAlwaysApplies ==
    last.op = "undo_reduce" => last.res = "Ok"

\* an undo_reduce that brought outstanding back to the largest Uint128
C18_Witness ==
    /\ last.op = "undo_reduce"
    /\ last.res = "Ok"
    /\ EntryAfter.outstanding = UINT128_MAX
    /\ steps >= 3

RECURSIVE SumOf(_, _)
\* the sum of f[q] * q over the quantities of Q
SumOf(Q, f) ==
    IF Q = {} THEN 0
    ELSE LET q == CHOOSE x \in Q : TRUE
         IN  q * f[q] + SumOf(Q \ {q}, f)

\* the quantities reduced on key k and not undone
PendingOn(k) == SumOf(Quantities, [q \in Quantities |-> pending[<<k, q>>]])

\* C19: for every key, outstanding plus the reduces not yet undone on that
\* key is at most total_sent; so outstanding <= total_sent.
C19_OutstandingWithinTotalSent ==
    \A k \in Keys :
        /\ ledger[k].outstanding + PendingOn(k) <= ledger[k].total_sent
        /\ ledger[k].outstanding <= ledger[k].total_sent

\* after an undo_reduce, with another reduce on the key still to be undone
C19_Witness ==
    /\ last.op = "undo_reduce"
    /\ last.res = "Ok"
    /\ PendingOn(LastKey) > 0
    /\ EntryAfter.outstanding > 0

\* C17 as stated: when reduce(c, d, q) succeeded in S, other calls succeeded
\* and then undo_reduce(c, d, q) succeeded, the ledger is the one obtained by
\* making only the calls in between on S.
C17_DelayedUndoRestores ==
    track.done => ledger = track.shadow

\* C17, amended: the same, provided each call in between also succeeds when
\* it is made on S without the reduce.
C17_DelayedUndoRestoresReplayed ==
    (track.done /\ track.replayed) => ledger = track.shadow

\* the undo_reduce came after a call that changed outstanding of the same key
C17_Witness ==
    /\ track.done
    /\ track.replayed
    /\ last.op = "undo_reduce"
    /\ track.shadow[LastKey].outstanding # track.start[LastKey].outstanding
    /\ track.shadow[LastKey].total_sent # track.start[LastKey].total_sent

\* C20: a ledger operation on a key, successful or not, leaves the entry of
\* every other key and the stored commission as they were; set_commission
\* leaves every entry as it was; calculate_lock_in changes neither the ledger
\* nor the commission.
C20_KeyIsolation ==
    [][/\ last'.op \in {"increase", "reduce", "undo_reduce"} =>
             /\ \A k \in Keys :
                   k # <<last'.channel, last'.denom>> => ledger'[k] = ledger[k]
             /\ commission' = commission
       /\ last'.op = "set_commission" => ledger' = ledger
       /\ last'.op = "calculate_lock_in" =>
             (ledger' = ledger /\ commission' = commission)]_vars

\* an increase that changed its entry while the same channel holds an entry
\* for another denom and a commission is set
C20_Witness ==
    /\ last.op = "increase"
    /\ last.res = "Ok"
    /\ last.amount > 0
    /\ commission.set
    /\ \E d \in Denoms :
          /\ d # last.denom
          /\ ledger[<<last.channel, d>>].present
          /\ ledger[<<last.channel, d>>].outstanding # EntryAfter.outstanding

====
